---- MODULE Spec2Model ----
(***************************************************************************)
(* PDF Text Analyzer: the backend (server.cjs) and the frontend (App.jsx). *)
(*                                                                         *)
(* A text is a sequence of one-character strings.  Three specifications    *)
(* share the module:                                                       *)
(*   SpecAnalyze  calculateStats and calculateWordFrequency on texts       *)
(*   SpecServer   the startup import, POST /api/analyze and processPDF     *)
(*   SpecApp      the React component App and its handleUpload             *)
(***************************************************************************)
EXTENDS Integers, Sequences, FiniteSets

VARIABLES
    \* ---- SpecAnalyze
    text,            \* the argument of calculateStats / calculateWordFrequency
    nwords,          \* how many words the input was built from
    apc,             \* "input" while the text is being chosen, "done" after the call
    stats,           \* the record calculateStats returned
    frequency,       \* the local object `frequency` when the forEach loop has ended
    wordFrequency,   \* the array calculateWordFrequency returned
    \* ---- SpecServer
    fromBuffer,      \* the module-level `let fromBuffer`: "undefined" or "loaded"
    proc,            \* the node process: "running" or "exited"
    req,             \* per request: the handler's position and locals
    \* ---- SpecApp
    view,            \* the React state of App: stats, wordFrequency, loading
    uploads,         \* the handleUpload calls so far, in the order they started
    toasts           \* the toasts shown so far

avars == <<text, nwords, apc, stats, frequency, wordFrequency>>
svars == <<fromBuffer, proc, req>>
fvars == <<view, uploads, toasts>>
vars == <<avars, svars, fvars>>

(***************************************************************************)
(* Characters                                                              *)
(***************************************************************************)
Lower == <<"a","b","c","d","e","f","g","h","i","j","k","l","m",
           "n","o","p","q","r","s","t","u","v","w","x","y","z">>
Upper == <<"A","B","C","D","E","F","G","H","I","J","K","L","M",
           "N","O","P","Q","R","S","T","U","V","W","X","Y","Z">>
Digits == <<"0","1","2","3","4","5","6","7","8","9">>

Range(s) == {s[i] : i \in DOMAIN s}

\* \w of a JavaScript regular expression: [A-Za-z0-9_]
WordChars == Range(Lower) \cup Range(Upper) \cup Range(Digits) \cup {"_"}

\* \s of a regular expression, and what String.prototype.trim removes
WhiteSpace == {" ", "\t", "\n", "\r"}

\* [.!?] of the sentence split
SentenceEnd == {".", "!", "?"}

ToLowerChar(c) ==
    IF \E i \in DOMAIN Upper : Upper[i] = c
    THEN Lower[CHOOSE i \in DOMAIN Upper : Upper[i] = c]
    ELSE c

\* String.prototype.toLowerCase
toLowerCase(s) == [i \in 1..Len(s) |-> ToLowerChar(s[i])]

RECURSIVE TrimStart(_)
TrimStart(s) ==
    IF s # <<>> /\ Head(s) \in WhiteSpace THEN TrimStart(Tail(s)) ELSE s

RECURSIVE TrimEnd(_)
TrimEnd(s) ==
    IF s # <<>> /\ s[Len(s)] \in WhiteSpace
    THEN TrimEnd(SubSeq(s, 1, Len(s) - 1))
    ELSE s

\* String.prototype.trim
trim(s) == TrimEnd(TrimStart(s))

\* String.prototype.split(/[seps]+/): the pieces between the maximal runs of
\* separator characters; a run at either end leaves an empty piece there.
RECURSIVE SplitRuns(_, _, _, _)
SplitRuns(s, seps, i, cur) ==
    IF i > Len(s) THEN <<cur>>
    ELSE IF s[i] \in seps
         THEN IF i > 1 /\ s[i - 1] \in seps
              THEN SplitRuns(s, seps, i + 1, cur)
              ELSE <<cur>> \o SplitRuns(s, seps, i + 1, <<>>)
         ELSE SplitRuns(s, seps, i + 1, Append(cur, s[i]))

split(s, seps) == SplitRuns(s, seps, 1, <<>>)

\* Array.prototype.filter
filter(arr, Keep(_)) == SelectSeq(arr, Keep)

\* text.replace(/\s/g, ''): every whitespace character removed
RemoveSpaces(s) == LET NotSpace(c) == c \notin WhiteSpace IN filter(s, NotSpace)

(***************************************************************************)
(* JavaScript numbers a / b, as the pair of the operands.  0 / 0 is NaN.   *)
(***************************************************************************)
Divide(a, b) == [num |-> a, den |-> b]
Zero == [num |-> 0, den |-> 1]
IsNaN(q) == q.num = 0 /\ q.den = 0
Falsy(q) == IsNaN(q) \/ (q.num = 0 /\ q.den # 0)

\* OrZero with the `|| 0` guard left out
OrZeroMissing(q) == q

\* q || 0
OrZero(q) == IF Falsy(q) THEN Zero ELSE q

RECURSIVE SumLen(_)
\* words.reduce((acc, word) => acc + word.length, 0)
SumLen(words) == IF words = <<>> THEN 0 ELSE Len(Head(words)) + SumLen(Tail(words))

NonEmpty(w) == Len(w) > 0
TrimTruthy(s) == trim(s) # <<>>

calculateStats(t) ==
    LET words == filter(split(t, WhiteSpace), NonEmpty)
        sentences == filter(split(t, SentenceEnd), TrimTruthy)
        charCountWithoutSpaces == Len(RemoveSpaces(t))
    IN [wordCount |-> Len(words),
        charCount |-> Len(t),
        charCountWithoutSpaces |-> charCountWithoutSpaces,
        sentenceCount |-> Len(sentences),
        avgWordLength |-> OrZero(Divide(SumLen(words), Len(words)))]

(***************************************************************************)
(* calculateWordFrequency                                                  *)
(***************************************************************************)
\* the top of the list: .slice(0, 20)
TopN == 20

W_the == <<"t","h","e">>
W_and == <<"a","n","d">>
W_is == <<"i","s">>
W_in == <<"i","n">>
W_to == <<"t","o">>
W_of == <<"o","f">>
stopWords == {W_the, W_and, W_is, W_in, W_to, W_of}

\* \b before position i of s (1 <= i <= Len(s) + 1): exactly one of the two
\* neighbouring characters is a word character
IsBoundary(s, i) ==
    LET before == i > 1 /\ s[i - 1] \in WordChars
        after == i <= Len(s) /\ s[i] \in WordChars
    IN before # after

\* greedy \w+ from position i, then \b: the last position of the match
RECURSIVE WordEnd(_, _)
WordEnd(s, i) ==
    IF i < Len(s) /\ s[i + 1] \in WordChars THEN WordEnd(s, i + 1) ELSE i

\* s.match(/\b\w+\b/g) || []: the matches from position i on, left to right
RECURSIVE matchWords(_, _)
matchWords(s, i) ==
    IF i > Len(s) THEN <<>>
    ELSE IF IsBoundary(s, i) /\ s[i] \in WordChars
         THEN LET j == WordEnd(s, i)
              IN <<SubSeq(s, i, j)>> \o matchWords(s, j + 1)
         ELSE matchWords(s, i + 1)

(***************************************************************************)
(* The object `frequency = {}`.  Its own properties are kept in creation   *)
(* order as [key, value] records; what it inherits from Object.prototype   *)
(* is read by Get.  A value is [t, n]: t = "number" with the number n, or  *)
(* t = "string" for a string made of an object's text and n characters     *)
(* "1", or "function", "object", "undefined".                              *)
(***************************************************************************)
K_constructor == <<"c","o","n","s","t","r","u","c","t","o","r">>
K_proto == <<"_","_","p","r","o","t","o","_","_">>

Num(n) == [t |-> "number", n |-> n]
Undefined == [t |-> "undefined", n |-> 0]

HasOwn(obj, k) == \E i \in DOMAIN obj : obj[i].key = k
OwnIndex(obj, k) == CHOOSE i \in DOMAIN obj : obj[i].key = k

\* obj[k]: an own property, else the property of Object.prototype with that
\* name.  toLowerCase leaves two such names reachable: constructor (the
\* function Object) and __proto__ (the accessor giving Object.prototype).
Get(obj, k) ==
    IF HasOwn(obj, k) THEN obj[OwnIndex(obj, k)].value
    ELSE IF k = K_constructor THEN [t |-> "function", n |-> 0]
    ELSE IF k = K_proto THEN [t |-> "object", n |-> 0]
    ELSE Undefined

\* obj[k] = v: the __proto__ setter ignores a value that is no object;
\* any other key becomes (or updates) an own property
Set(obj, k, v) ==
    IF k = K_proto THEN obj
    ELSE IF HasOwn(obj, k)
         THEN [obj EXCEPT ![OwnIndex(obj, k)].value = v]
         ELSE Append(obj, [key |-> k, value |-> v])

Truthy(v) ==
    CASE v.t = "number" -> v.n # 0
      [] v.t = "undefined" -> FALSE
      [] OTHER -> TRUE

\* v || 0
OrNum0(v) == IF Truthy(v) THEN v ELSE Num(0)

\* v + 1: addition on a number, concatenation of "1" on anything else
PlusOne(v) ==
    CASE v.t = "number" -> Num(v.n + 1)
      [] v.t = "string" -> [t |-> "string", n |-> v.n + 1]
      [] OTHER -> [t |-> "string", n |-> 1]

\* words.forEach(word => { if (!stopWords.has(word)) frequency[word] = ... })
RECURSIVE CountWords(_, _)
CountWords(words, obj) ==
    IF words = <<>> THEN obj
    ELSE LET word == Head(words)
         IN CountWords(Tail(words),
                IF word \notin stopWords
                THEN Set(obj, word, PlusOne(OrNum0(Get(obj, word))))
                ELSE obj)

DigitValue(c) == (CHOOSE i \in DOMAIN Digits : Digits[i] = c) - 1

\* the order of two numerals of the same length is the order of their digits
RECURSIVE DigitsLess(_, _)
DigitsLess(a, b) ==
    IF a = <<>> THEN FALSE
    ELSE IF DigitValue(Head(a)) # DigitValue(Head(b))
         THEN DigitValue(Head(a)) < DigitValue(Head(b))
         ELSE DigitsLess(Tail(a), Tail(b))

\* a < b for canonical decimal numerals (no leading zero)
NumeralLess(a, b) == Len(a) < Len(b) \/ (Len(a) = Len(b) /\ DigitsLess(a, b))

\* 2^32 - 1, the first integer that is no array index
IndexLimit == <<"4","2","9","4","9","6","7","2","9","5">>

\* a property key that is an array index: a canonical decimal numeral
\* below 2^32 - 1
IsArrayIndex(k) ==
    /\ Len(k) >= 1
    /\ \A i \in DOMAIN k : k[i] \in Range(Digits)
    /\ (Len(k) = 1 \/ k[1] # "0")
    /\ NumeralLess(k, IndexLimit)

\* the array-index keys of props in ascending numeric order
RECURSIVE Ascending(_)
Ascending(props) ==
    IF props = {} THEN <<>>
    ELSE LET least == CHOOSE p \in props :
                            \A q \in props : ~NumeralLess(q.key, p.key)
         IN <<least>> \o Ascending(props \ {least})

IsIndexProp(p) == IsArrayIndex(p.key)
IsNameProp(p) == ~IsArrayIndex(p.key)

\* Object.entries(obj): OrdinaryOwnPropertyKeys lists the array-index keys
\* in ascending numeric order, then the other keys in creation order
ObjectEntries(obj) ==
    Ascending({obj[i] : i \in {j \in DOMAIN obj : IsIndexProp(obj[j])}})
        \o SelectSeq(obj, IsNameProp)

\* (a, b) => b[1] - a[1], as the sign of the result; "NaN" when an operand
\* of the subtraction is no number
Compare(a, b) ==
    IF a.value.t = "number" /\ b.value.t = "number"
    THEN IF b.value.n < a.value.n THEN "neg"
         ELSE IF b.value.n > a.value.n THEN "pos" ELSE "zero"
    ELSE "NaN"

\* SortCompare: a NaN from the comparator counts as +0
SortCompare(a, b) == IF Compare(a, b) = "NaN" THEN "zero" ELSE Compare(a, b)

\* a consistent comparator (ECMA-262, Array.prototype.sort) on the entries
Consistent(arr) ==
    LET S == Range(arr)
    IN \A a, b, c \in S :
          /\ (SortCompare(a, b) = "zero" /\ SortCompare(b, c) = "zero"
                  => SortCompare(a, c) = "zero")
          /\ (SortCompare(a, b) = "neg" /\ SortCompare(b, c) = "zero"
                  => SortCompare(a, c) = "neg")
          /\ (SortCompare(a, b) = "zero" /\ SortCompare(b, c) = "neg"
                  => SortCompare(a, c) = "neg")

\* insertion of e behind every element that does not sort after it
RECURSIVE InsertStable(_, _)
InsertStable(sorted, e) ==
    IF sorted = <<>> THEN <<e>>
    ELSE IF SortCompare(Head(sorted), e) = "pos"
         THEN <<e>> \o sorted
         ELSE <<Head(sorted)>> \o InsertStable(Tail(sorted), e)

RECURSIVE StableSort(_, _)
StableSort(arr, sorted) ==
    IF arr = <<>> THEN sorted
    ELSE StableSort(Tail(arr), InsertStable(sorted, Head(arr)))

Orderings(arr) ==
    LET n == Len(arr)
    IN {[i \in 1..n |-> arr[p[i]]] :
            p \in {q \in [1..n -> 1..n] : \A i, j \in 1..n : i # j => q[i] # q[j]}}

\* arr.sort(comparator): the stable sort when the comparator is consistent;
\* otherwise the order is implementation-defined: some permutation
SortOutcomes(arr) ==
    IF Consistent(arr) THEN {StableSort(arr, <<>>)} ELSE Orderings(arr)

\* arr.slice(0, n)
slice0(arr, n) == SubSeq(arr, 1, IF Len(arr) < n THEN Len(arr) ELSE n)

\* the object `frequency` when the forEach loop has ended
FrequencyObject(t) == CountWords(matchWords(toLowerCase(t), 1), <<>>)

\* the arrays calculateWordFrequency(t) can return
calculateWordFrequency(t) ==
    {slice0(sorted, TopN) : sorted \in SortOutcomes(ObjectEntries(FrequencyObject(t)))}

(***************************************************************************)
(* SpecAnalyze: the two analysis functions applied to a text that is built *)
(* word by word from a vocabulary, or to one of the long texts.            *)
(***************************************************************************)
MaxWords == 4

W_fox == <<"f","o","x">>
W_The == <<"T","h","e">>
W_10 == <<"1","0">>
W_2 == <<"2">>
Vocabulary == {W_fox, W_The, W_10, W_2, K_constructor, K_proto}
Separators == {<<" ">>, <<".">>}

\* the first n letters as n one-letter words, the last letter written twice
RECURSIVE Letters(_)
Letters(n) == IF n = 0 THEN <<>> ELSE Letters(n - 1) \o <<Lower[n], " ">>
LongTexts == {Letters(n) \o <<Lower[n]>> : n \in (TopN - 1)..(TopN + 2)}

\* texts without a word character
BlankTexts == {<<" ">>, <<"\t", "\n">>, <<".">>, <<"!", " ", "?">>, <<" ", "-", " ">>}

NoResult == "none"

\* useState(null)
Null == [null |-> TRUE]

InitAnalyze ==
    /\ text \in {<<>>} \cup BlankTexts \cup LongTexts
    /\ nwords = (IF text = <<>> THEN 0 ELSE MaxWords)
    /\ apc = "input"
    /\ stats = NoResult
    /\ frequency = NoResult
    /\ wordFrequency = NoResult

InitAnalyzeIdle ==
    /\ text = <<>>
    /\ nwords = 0
    /\ apc = "idle"
    /\ stats = NoResult
    /\ frequency = NoResult
    /\ wordFrequency = NoResult

InitServerIdle ==
    /\ fromBuffer = "undefined"
    /\ proc = "running"
    /\ req = <<>>

InitAppIdle ==
    /\ view = [stats |-> Null, wordFrequency |-> <<>>, loading |-> FALSE]
    /\ uploads = <<>>
    /\ toasts = <<>>

AppendWord(w, sep) ==
    /\ apc = "input"
    /\ nwords < MaxWords
    /\ text' = text \o w \o sep
    /\ nwords' = nwords + 1
    /\ UNCHANGED <<apc, stats, frequency, wordFrequency, svars, fvars>>

\* const stats = calculateStats(text);
\* const wordFrequency = calculateWordFrequency(text);
Analyze ==
    /\ apc = "input"
    /\ apc' = "done"
    /\ stats' = calculateStats(text)
    /\ frequency' = FrequencyObject(text)
    /\ wordFrequency' \in calculateWordFrequency(text)
    /\ UNCHANGED <<text, nwords, svars, fvars>>

NextAnalyze ==
    \/ \E w \in Vocabulary, sep \in Separators : AppendWord(w, sep)
    \/ Analyze

InitAnalyzeSpec == InitAnalyze /\ InitServerIdle /\ InitAppIdle

SpecAnalyze == InitAnalyzeSpec /\ [][NextAnalyze]_vars

(***************************************************************************)
(* SpecServer: the startup import of pdf-to-img, and the requests to       *)
(* POST /api/analyze.  Each await of the handler and of processPDF ends    *)
(* one action; what the awaited library call gives (a value or a thrown    *)
(* error) is the action's input.                                           *)
(***************************************************************************)
Requests == {1, 2}
MaxPages == 3
MaxPad == 1

\* if (pdfText.text.trim().length > 50) return pdfText.text;
MinTextLength == 50

PdfMime == "application/pdf"
Files == {"none", "text/plain", PdfMime}

\* what pdf-parse can give: a text of body length n between p characters of
\* white space on each side
Body(n) == [i \in 1..n |-> IF (i % 4) = 0 /\ i # n THEN " " ELSE Lower[1 + (i % 4)]]
Pad(p, c) == [i \in 1..p |-> c]
MkText(p, n) == Pad(p, " ") \o Body(n) \o Pad(p, "\n")
BodyLengths == {0, MinTextLength - 1, MinTextLength, MinTextLength + 1}

\* what Tesseract can recognize on a page
PageTexts == {<<>>, W_fox}

E_parse == "Invalid PDF structure"
E_render == "Failed to render page"
E_data == "Failed to read page image"
E_ocr == "OCR engine failure"
E_notFunction == "fromBuffer is not a function"
NoError == "none"

IdleRequest ==
    [pc |-> "idle", pdfText |-> NoResult, fullText |-> <<>>, pages |-> 0, page |-> 0,
     response |-> NoResult,
     \* history, read by the properties only
     trimLen |-> -1, ocrPath |-> FALSE, loadedAtFallback |-> FALSE,
     renders |-> 0, started |-> <<>>, recognized |-> <<>>,
     threw |-> NoError, returned |-> NoResult, analysed |-> 0, sent |-> 0]

InitServer ==
    /\ fromBuffer = "undefined"
    /\ proc = "running"
    /\ req = [r \in Requests |-> IdleRequest]

\* res.status(code).json({ error })
SendError(rec, code, error) ==
    [rec EXCEPT !.pc = "done", !.sent = @ + 1,
                !.response = [status |-> code, body |-> [error |-> error]]]

\* processPDF returned t: lines 133-136 of the handler
Returned(rec, t) ==
    {[rec EXCEPT !.pc = "done", !.sent = @ + 1, !.returned = t, !.analysed = @ + 1,
                 !.response = [status |-> 200,
                               body |-> [stats |-> calculateStats(t),
                                         wordFrequency |-> wf]]] :
        wf \in calculateWordFrequency(t)}

\* `Processing failed: ${error.message}`
Wrap(message) == [prefix |-> "Processing failed: ", message |-> message]

\* the catch of processPDF gives back what was read so far
ReturnPartial(rec, message) == Returned(rec, rec.fullText)

\* the catch of processPDF rethrows, and the catch of the handler answers 500
ProcessFailed(rec, message) == {SendError(rec, 500, Wrap(message))}

\* the threshold applied to the text as parsed, without trim()
NeedsOcrNoTrim(t) == ~(Len(t) > MinTextLength)

\* the fast path is not taken
NeedsOcr(t) == ~(Len(trim(t)) > MinTextLength)

\* the page's line put in front of the text
PrependPage(fullText, t) == t \o <<"\n">> \o fullText

\* fullText += text + '\n'
AppendPage(fullText, t) == fullText \o t \o <<"\n">>

\* return fullText;
ReturnFullText(rec) == Returned(rec, rec.fullText)

\* the for-of loop: the next page, or the return after the last one
NextPage(rec) ==
    IF rec.page < rec.pages
    THEN {[rec EXCEPT !.pc = "loop", !.page = @ + 1]}
    ELSE ReturnFullText(rec)

Step(r, results) ==
    /\ proc = "running"
    /\ \E x \in results : req' = [req EXCEPT ![r] = x]
    /\ UNCHANGED <<fromBuffer, proc, avars, fvars>>

\* const pdfToImg = await import('pdf-to-img'); fromBuffer = pdfToImg.fromBuffer;
ImportDone ==
    /\ proc = "running"
    /\ fromBuffer = "undefined"
    /\ fromBuffer' = "loaded"
    /\ UNCHANGED <<proc, req, avars, fvars>>

\* the import failed: process.exit(1)
ImportFailed ==
    /\ proc = "running"
    /\ fromBuffer = "undefined"
    /\ proc' = "exited"
    /\ UNCHANGED <<fromBuffer, req, avars, fvars>>

\* the handler up to `await processPDF(...)` and, in it, `await pdfParse(buffer)`
Arrive(r, file) ==
    /\ req[r].pc = "idle"
    /\ Step(r, {IF file = "none" THEN SendError(req[r], 400, "No file uploaded")
                ELSE IF file # PdfMime
                     THEN SendError(req[r], 400, "Only PDF files allowed")
                     ELSE [req[r] EXCEPT !.pc = "parsing"]})

\* pdfParse rejected
ParseFailed(r) ==
    /\ req[r].pc = "parsing"
    /\ Step(r, ProcessFailed([req[r] EXCEPT !.threw = E_parse], E_parse))

\* pdfParse gave the text: the fast path, or the call of fromBuffer
ParseDone(r, p, n) ==
    /\ req[r].pc = "parsing"
    /\ LET t == MkText(p, n)
           rec == [req[r] EXCEPT !.pdfText = t, !.trimLen = n]
           ocr == [rec EXCEPT !.ocrPath = TRUE,
                              !.loadedAtFallback = (fromBuffer = "loaded")]
       IN Step(r, IF ~NeedsOcr(t) THEN Returned(rec, t)
                  ELSE IF fromBuffer = "undefined"
                       THEN ProcessFailed([ocr EXCEPT !.threw = E_notFunction],
                                          E_notFunction)
                       ELSE {[ocr EXCEPT !.pc = "rendering", !.renders = @ + 1]})

\* fromBuffer rejected
RenderFailed(r) ==
    /\ req[r].pc = "rendering"
    /\ Step(r, ProcessFailed([req[r] EXCEPT !.threw = E_render], E_render))

\* fromBuffer gave n pages: let fullText = ''; and the loop is entered
RenderDone(r, n) ==
    /\ req[r].pc = "rendering"
    /\ Step(r, NextPage([req[r] EXCEPT !.pages = n, !.fullText = <<>>]))

\* await page.data rejected
PageDataFailed(r) ==
    /\ req[r].pc = "loop"
    /\ Step(r, ProcessFailed([req[r] EXCEPT !.threw = E_data], E_data))

\* await page.data gave the image: Tesseract.recognize(image, 'eng') is called
StartRecognize(r) ==
    /\ req[r].pc = "loop"
    /\ Step(r, {[req[r] EXCEPT !.pc = "recognizing",
                               !.started = Append(@, req[r].page)]})

\* Tesseract.recognize rejected
RecognizeFailed(r) ==
    /\ req[r].pc = "recognizing"
    /\ Step(r, ProcessFailed([req[r] EXCEPT !.threw = E_ocr], E_ocr))

\* Tesseract.recognize gave the page's text
RecognizeDone(r, t) ==
    /\ req[r].pc = "recognizing"
    /\ Step(r, NextPage([req[r] EXCEPT
                           !.fullText = AppendPage(@, t),
                           !.recognized = Append(@, [page |-> req[r].page, text |-> t])]))

NextServer ==
    \/ ImportDone
    \/ ImportFailed
    \/ \E r \in Requests, file \in Files : Arrive(r, file)
    \/ \E r \in Requests : ParseFailed(r)
    \/ \E r \in Requests, p \in 0..MaxPad, n \in BodyLengths : ParseDone(r, p, n)
    \/ \E r \in Requests : RenderFailed(r)
    \/ \E r \in Requests, n \in 0..MaxPages : RenderDone(r, n)
    \/ \E r \in Requests : PageDataFailed(r)
    \/ \E r \in Requests : StartRecognize(r)
    \/ \E r \in Requests : RecognizeFailed(r)
    \/ \E r \in Requests, t \in PageTexts : RecognizeDone(r, t)

InitServerSpec == InitAnalyzeIdle /\ InitServer /\ InitAppIdle

SpecServer == InitServerSpec /\ [][NextServer]_vars

(***************************************************************************)
(* SpecApp: the component App.  A drop starts handleUpload, which runs to  *)
(* its await; the answer of the POST resumes it.  Nothing keeps a second   *)
(* drop from starting while the first is awaited.  The two state setters   *)
(* after the await run in one synchronous stretch and are committed        *)
(* together.                                                               *)
(***************************************************************************)
MaxUploads == 3

\* the answers of POST /api/analyze to the files a user can drop
DocText(file) ==
    CASE file = "fox.pdf" -> W_fox \o <<" ">> \o W_fox \o <<".">>
      [] file = "numbers.pdf" -> W_10 \o <<" ">> \o W_2
      [] OTHER -> <<>>
GoodFiles == {"fox.pdf", "numbers.pdf"}
DropFiles == GoodFiles \cup {"broken.pdf"}
Answers(file) ==
    IF file \in GoodFiles
    THEN {[status |-> 200,
           data |-> [stats |-> calculateStats(DocText(file)), wordFrequency |-> wf]] :
              wf \in calculateWordFrequency(DocText(file))}
    ELSE {[status |-> 500, data |-> [error |-> Wrap(E_parse)]]}

InitApp ==
    /\ view = [stats |-> Null, wordFrequency |-> <<>>, loading |-> FALSE]
    /\ uploads = <<>>
    /\ toasts = <<>>

Posting(u) == uploads[u].pc = "posting"

\* onDrop: files => files[0] && onUpload(files[0]); handleUpload up to the await
Drop(files) ==
    /\ Len(uploads) < MaxUploads
    /\ files # <<>>
    /\ view' = [view EXCEPT !.loading = TRUE]
    /\ uploads' = Append(uploads,
                         [file |-> files[1], pc |-> "posting", answer |-> NoResult,
                          concurrent |-> {u \in DOMAIN uploads : Posting(u)}])
    /\ UNCHANGED <<toasts, avars, svars>>

\* the POST resolved: setStats, setWordFrequency, toast.success, setLoading(false)
PostResolved(u, answer) ==
    /\ Posting(u)
    /\ answer.status = 200
    /\ view' = [stats |-> answer.data.stats,
                wordFrequency |-> answer.data.wordFrequency,
                loading |-> FALSE]
    /\ uploads' = [uploads EXCEPT ![u].pc = "done", ![u].answer = answer]
    /\ toasts' = Append(toasts, [kind |-> "success", message |-> "Analysis complete!"])
    /\ UNCHANGED <<avars, svars>>

\* the POST rejected: toast.error(error.response?.data?.error || 'Analysis failed')
PostRejected(u, answer) ==
    /\ Posting(u)
    /\ answer.status # 200
    /\ view' = [view EXCEPT !.loading = FALSE]
    /\ uploads' = [uploads EXCEPT ![u].pc = "done", ![u].answer = answer]
    /\ toasts' = Append(toasts, [kind |-> "error", message |-> answer.data.error])
    /\ UNCHANGED <<avars, svars>>

\* no answer came (the server is down): error.response is undefined
PostFailed(u) ==
    /\ Posting(u)
    /\ view' = [view EXCEPT !.loading = FALSE]
    /\ uploads' = [uploads EXCEPT ![u].pc = "done", ![u].answer = [status |-> 0]]
    /\ toasts' = Append(toasts, [kind |-> "error", message |-> "Analysis failed"])
    /\ UNCHANGED <<avars, svars>>

NextApp ==
    \/ \E file \in DropFiles : Drop(<<file>>)
    \/ \E u \in DOMAIN uploads : \E answer \in Answers(uploads[u].file) :
          PostResolved(u, answer)
    \/ \E u \in DOMAIN uploads : \E answer \in Answers(uploads[u].file) :
          PostRejected(u, answer)
    \/ \E u \in DOMAIN uploads : PostFailed(u)

InitAppSpec == InitAnalyzeIdle /\ InitServerIdle /\ InitApp

SpecApp == InitAppSpec /\ [][NextApp]_vars

(***************************************************************************)
(* Properties of the analysis functions (SpecAnalyze)                      *)
(***************************************************************************)
Analyzed == apc = "done"

\* the word-character tokens of the lowercased text
Tokens == matchWords(toLowerCase(text), 1)
Occurrences(toks, w) == Cardinality({i \in DOMAIN toks : toks[i] = w})
FirstSeen(toks, w) == CHOOSE i \in DOMAIN toks :
                          toks[i] = w /\ \A j \in 1..(i - 1) : toks[j] # w
IsCount(v) == v.t = "number" /\ v.n >= 1

\* C5: the list calculateWordFrequency returns has at most 20 entries, is
\* sorted by count non-increasing, holds no stop word, and every word in it
\* is a non-empty run of word characters.
C5_TopListWellFormed ==
    Analyzed =>
        /\ Len(wordFrequency) <= 20
        /\ \A i, j \in DOMAIN wordFrequency :
              i < j => /\ IsCount(wordFrequency[i].value)
                       /\ IsCount(wordFrequency[j].value)
                       /\ wordFrequency[i].value.n >= wordFrequency[j].value.n
        /\ \A i \in DOMAIN wordFrequency :
              /\ wordFrequency[i].key \notin stopWords
              /\ wordFrequency[i].key # <<>>
              /\ \A k \in DOMAIN wordFrequency[i].key :
                    wordFrequency[i].key[k] \in WordChars

\* C6: among the entries of equal count, the list keeps the order in which
\* the words were first met in the text, digit-only words included.
C6_TiesInFirstSeenOrder ==
    Analyzed =>
        LET toks == Tokens
        IN \A i, j \in DOMAIN wordFrequency :
              (i < j /\ wordFrequency[i].value = wordFrequency[j].value)
                  => FirstSeen(toks, wordFrequency[i].key)
                        < FirstSeen(toks, wordFrequency[j].key)

\* C7: calculateStats gives avgWordLength = 0 whenever wordCount = 0, and
\* the empty string gives five zeros and an empty frequency list.
C7_NoWordsZeroAverage ==
    Analyzed =>
        /\ stats.wordCount = 0 => stats.avgWordLength = Zero
        /\ text = <<>> =>
              /\ stats = [wordCount |-> 0, charCount |-> 0, charCountWithoutSpaces |-> 0,
                          sentenceCount |-> 0, avgWordLength |-> Zero]
              /\ wordFrequency = <<>>

\* a text that is not empty and has no word was analysed
C7_Witness ==
    Analyzed /\ text # <<>> /\ stats.wordCount = 0 /\ stats.charCount > 0

\* C8: every entry's count is the number of times its word occurs among the
\* tokens, a positive integer, and every token that is no stop word is
\* counted in the mapping, constructor and __proto__ included.
C8_CountsAreOccurrences ==
    Analyzed =>
        LET toks == Tokens
        IN /\ \A i \in DOMAIN wordFrequency :
                 wordFrequency[i].value = Num(Occurrences(toks, wordFrequency[i].key))
           /\ \A k \in DOMAIN toks :
                 toks[k] \notin stopWords =>
                     /\ HasOwn(frequency, toks[k])
                     /\ Get(frequency, toks[k]) = Num(Occurrences(toks, toks[k]))

(***************************************************************************)
(* Properties of the server (SpecServer)                                   *)
(***************************************************************************)
Parsed(r) == req[r].trimLen >= 0
Done(r) == req[r].pc = "done"
AllBlank(r) == \A i \in DOMAIN req[r].recognized : req[r].recognized[i].text = <<>>

\* C1: processPDF enters the OCR path exactly when the trimmed direct-parse
\* text has at most 50 characters; a longer one is returned unchanged, and
\* neither fromBuffer nor Tesseract.recognize is called.
C1_FallbackIffShortText ==
    \A r \in Requests :
        Parsed(r) =>
            /\ req[r].ocrPath <=> req[r].trimLen <= 50
            /\ req[r].trimLen > 50 =>
                  /\ Done(r)
                  /\ req[r].returned = req[r].pdfText
                  /\ req[r].renders = 0
                  /\ req[r].started = <<>>

\* a text of more than 50 characters whose trimmed length is 50 went to OCR
C1_Witness ==
    \E r \in Requests :
        /\ req[r].trimLen = 50 /\ Len(req[r].pdfText) > 50
        /\ req[r].ocrPath /\ req[r].renders = 1 /\ req[r].started # <<>>

\* C2: when the direct parse gives at most 50 characters and the OCR path
\* recognizes no text (no page, or only blank pages), the call fails.
C2_NoUsableTextFails ==
    \A r \in Requests :
        (Done(r) /\ req[r].ocrPath /\ AllBlank(r)) => req[r].response.status = 500

\* the text of page 1, a newline, ..., the text of page n, a newline
RECURSIVE PagesInOrder(_, _)
PagesInOrder(recognized, n) ==
    IF n = 0 THEN <<>>
    ELSE PagesInOrder(recognized, n - 1)
            \o (CHOOSE x \in Range(recognized) : x.page = n).text \o <<"\n">>

\* C3: the OCR path returns the pages' texts in page order, each followed
\* by a newline, and the recognition of a page starts only when that of the
\* page before it has completed.
C3_PagesInPageOrder ==
    \A r \in Requests :
        /\ \A i \in DOMAIN req[r].started : req[r].started[i] = i
        /\ \A i \in DOMAIN req[r].recognized : req[r].recognized[i].page = i
        /\ Len(req[r].recognized) <= Len(req[r].started)
        /\ Len(req[r].started) <= Len(req[r].recognized) + 1
        /\ (Done(r) /\ req[r].ocrPath /\ req[r].returned # NoResult) =>
              /\ Len(req[r].recognized) = req[r].pages
              /\ req[r].returned = PagesInOrder(req[r].recognized, req[r].pages)

\* a document of three pages, neighbours differing in text, was returned
C3_Witness ==
    \E r \in Requests :
        /\ Done(r) /\ req[r].returned # NoResult /\ req[r].pages = 3
        /\ req[r].recognized[1].text # req[r].recognized[2].text
        /\ req[r].recognized[2].text # req[r].recognized[3].text

\* C4: when a step of the extraction fails, the request ends in one answer,
\* status 500 with only the wrapped message of the error; processPDF
\* returns nothing and the analysis functions are not run.
C4_FailureIsOneError ==
    \A r \in Requests :
        req[r].threw # NoError =>
            /\ Done(r)
            /\ req[r].sent = 1
            /\ req[r].response = [status |-> 500, body |-> [error |-> Wrap(req[r].threw)]]
            /\ req[r].returned = NoResult
            /\ req[r].analysed = 0

\* the OCR of a page failed after a page with text had been recognized
C4_Witness ==
    \E r \in Requests :
        /\ req[r].threw = E_ocr
        /\ Len(req[r].recognized) >= 1
        /\ req[r].fullText # <<>> /\ req[r].recognized[1].text # <<>>

\* C9: a request that reaches the OCR fallback finds fromBuffer loaded: none
\* fails because it came before the import completed.
C9_RendererLoadedAtFallback ==
    \A r \in Requests :
        /\ req[r].ocrPath => req[r].loadedAtFallback
        /\ req[r].threw # E_notFunction

(***************************************************************************)
(* Properties of the frontend (SpecApp)                                    *)
(***************************************************************************)
Succeeded(u) == uploads[u].pc = "done" /\ uploads[u].answer.status = 200
AllAnswered == \A u \in DOMAIN uploads : uploads[u].pc = "done"
Overlapped(u, v) == u \in uploads[v].concurrent
Latest == CHOOSE u \in DOMAIN uploads :
              Succeeded(u) /\ \A v \in DOMAIN uploads : Succeeded(v) => v <= u
Shows(u) ==
    /\ view.stats = uploads[u].answer.data.stats
    /\ view.wordFrequency = uploads[u].answer.data.wordFrequency

\* C10: when two overlapping uploads have both succeeded and every upload
\* has been answered, the stats and the word list shown are those of the
\* upload started last; the two always come from one answer.
C10_LatestUploadShown ==
    /\ (AllAnswered /\ \E u, v \in DOMAIN uploads :
                          u < v /\ Overlapped(u, v) /\ Succeeded(u) /\ Succeeded(v))
            => Shows(Latest)
    /\ view.stats # Null => \E u \in DOMAIN uploads : Succeeded(u) /\ Shows(u)

====
